---- MODULE Spec2Model ----
(***************************************************************************)
(* A model of bunch/__init__.py: the class Bunch (a dict subclass with     *)
(* attribute-style access) and the converters bunchify / unbunchify.       *)
(*                                                                         *)
(* A Bunch object has two stores:                                          *)
(*   self      the dict entries (key -> value), reached by subscript;      *)
(*   attrs     the instance attribute dictionary (the object's __dict__),  *)
(*             reached by ordinary attribute lookup.                       *)
(* The interpreter allocates the instance dictionary lazily, on the first  *)
(* object.__setattr__; dictmade says whether it exists.  The doctest of    *)
(* __delattr__ (lines 156-160) shows the error of object.__delattr__ on an *)
(* object that has none: "attribute 'values' is read-only".                *)
(***************************************************************************)
EXTENDS Integers, Sequences, FiniteSets, TLC

(* Bound on the stored values: the values are 1..MaxVal. *)
MaxVal == 2

Values == 1..MaxVal

(* Names defined on the class (methods inherited from dict): lines 47, 136. *)
Reserved == {"values", "keys"}

(* A name that the class does not define: line 33. *)
Plain == {"hello"}

Names == Plain \cup Reserved

VARIABLES self, attrs, dictmade, overridden, last, obj, out

vars == <<self, attrs, dictmade, overridden, last, obj, out>>

(***************************************************************************)
(* Dictionaries are functions on a subset of Names.                        *)
(***************************************************************************)
Dicts == UNION {[D -> Values] : D \in SUBSET Names}

EmptyDict == [x \in {} |-> 0]

SetItem(d, k, v) == [x \in DOMAIN d \cup {k} |-> IF x = k THEN v ELSE d[x]]

DelItem(d, k) == [x \in DOMAIN d \ {k} |-> d[x]]

(***************************************************************************)
(* What an operation gives back: the exception it raised (<<>> when none)  *)
(* and the value it returned.  A returned value is a stored value, a       *)
(* built-in method of the class, or None.                                  *)
(***************************************************************************)
NoExc == <<>>

None == <<"None">>

Value(v) == <<"value", v>>

BuiltinMethod(name) == <<"built-in method", name>>

Returns(r) == [exc |-> NoExc, ret |-> r]

Raises(e) == [exc |-> e, ret |-> None]

(* KeyError: 'name' *)
KeyError(name) == <<"KeyError", "name", name>>

(* AttributeError: name *)
AttributeError(name) == <<"AttributeError", "name", name>>

(* AttributeError: 'Bunch' object has no attribute 'name' *)
NoAttributeError(name) == <<"AttributeError", "has no attribute", name>>

(* AttributeError: 'Bunch' object attribute 'name' is read-only *)
ReadOnlyError(name) == <<"AttributeError", "is read-only", name>>

(***************************************************************************)
(* Subscript operations, inherited from dict.                              *)
(***************************************************************************)
GetItem(d, name) ==
    IF name \in DOMAIN d THEN Returns(Value(d[name])) ELSE Raises(KeyError(name))

(* Variant: the KeyError of the subscript lookup escapes unwrapped. *)
BunchGetattrUnwrapped(d, name) == GetItem(d, name)

(***************************************************************************)
(* Bunch.__getattr__: only called when the ordinary lookup failed.         *)
(***************************************************************************)
BunchGetattr(d, name) ==
    IF GetItem(d, name).exc = NoExc
    THEN GetItem(d, name)
    ELSE Raises(AttributeError(name))

(***************************************************************************)
(* getattr(self, name): the ordinary lookup (instance dictionary, then the *)
(* class), then __getattr__.                                               *)
(***************************************************************************)
GetAttribute(d, a, name) ==
    IF name \in DOMAIN a THEN Returns(Value(a[name]))
    ELSE IF name \in Reserved THEN Returns(BuiltinMethod(name))
    ELSE BunchGetattr(d, name)

(* Variant: the probe looks at the instance and the class, never at the keys. *)
HasAttrNoKeys(d, a, name) == name \in DOMAIN a \/ name \in Reserved

(* hasattr(self, name): getattr raised nothing. *)
HasAttr(d, a, name) == GetAttribute(d, a, name).exc = NoExc

(***************************************************************************)
(* Bunch.__setattr__(self, name, value), lines 146-149.                    *)
(*   if hasattr(self, name): object.__setattr__(self, name, value)         *)
(*   else: self.setdefault(name, value)                                    *)
(* object.__setattr__ stores into the instance dictionary (the class       *)
(* attributes of Reserved are methods, which an instance entry shadows).   *)
(***************************************************************************)
SetDefault(d, name, v) == IF name \in DOMAIN d THEN d ELSE SetItem(d, name, v)

(* Variant: the write always stores the key as well. *)
SetattrSelfAlways(d, a, name, v) == SetItem(d, name, v)

SetattrSelf(d, a, name, v) ==
    IF HasAttr(d, a, name) THEN d ELSE SetDefault(d, name, v)

SetattrAttrs(d, a, name, v) ==
    IF HasAttr(d, a, name) THEN SetItem(a, name, v) ELSE a

(***************************************************************************)
(* object.__delattr__(self, name), line 170, on an object whose class      *)
(* defines the names of Reserved as methods: with no instance dictionary   *)
(* the error is "read-only" for a name of the class (doctest, lines        *)
(* 157-160) and "has no attribute" otherwise; with one, the entry is       *)
(* deleted, and a missing entry raises AttributeError(name).               *)
(***************************************************************************)
(* Variant: a missing entry raises AttributeError(name), dictionary or not. *)
ObjectDelattrResultEager(a, made, name) ==
    IF name \in DOMAIN a THEN Returns(None) ELSE Raises(AttributeError(name))

ObjectDelattrResult(a, made, name) ==
    IF ~made
    THEN IF name \in Reserved
         THEN Raises(ReadOnlyError(name))
         ELSE Raises(NoAttributeError(name))
    ELSE IF name \in DOMAIN a
         THEN Returns(None)
         ELSE Raises(AttributeError(name))

ObjectDelattrAttrs(a, made, name) ==
    IF made /\ name \in DOMAIN a THEN DelItem(a, name) ELSE a

(***************************************************************************)
(* Bunch.__delattr__(self, name), lines 167-170.                           *)
(*   try: del self[name]                                                   *)
(*   except KeyError: object.__delattr__(self, name)                       *)
(***************************************************************************)
DelattrSelf(d, name) == IF name \in DOMAIN d THEN DelItem(d, name) ELSE d

(* Variant: the attribute binding is deleted whether or not the key exists. *)
DelattrAttrsBoth(d, a, made, name) == ObjectDelattrAttrs(a, made, name)

DelattrAttrs(d, a, made, name) ==
    IF name \in DOMAIN d THEN a ELSE ObjectDelattrAttrs(a, made, name)

DelattrResult(d, a, made, name) ==
    IF name \in DOMAIN d THEN Returns(None) ELSE ObjectDelattrResult(a, made, name)

(***************************************************************************)
(* The state after construction: Bunch(), Bunch(mapping), Bunch(lol=42)    *)
(* fill the dict entries (line 28: the constructor is dict's); no instance *)
(* attribute is bound yet.                                                 *)
(***************************************************************************)
NoOp == [op |-> "construct", name |-> "", value |-> 0, res |-> Returns(None)]

MapInit ==
    /\ self \in Dicts
    /\ attrs = EmptyDict
    /\ dictmade = FALSE
    /\ overridden = {}
    /\ last = NoOp

(* m[name] = value *)
SetKey(name, v) ==
    /\ self' = SetItem(self, name, v)
    /\ last' = [op |-> "setKey", name |-> name, value |-> v, res |-> Returns(None)]
    /\ UNCHANGED <<attrs, dictmade, overridden, obj, out>>

(* m[name] *)
GetKey(name) ==
    /\ last' = [op |-> "getKey", name |-> name, value |-> 0, res |-> GetItem(self, name)]
    /\ UNCHANGED <<self, attrs, dictmade, overridden, obj, out>>

(* del m[name] *)
DeleteKey(name) ==
    /\ self' = IF name \in DOMAIN self THEN DelItem(self, name) ELSE self
    /\ last' = [op |-> "deleteKey", name |-> name, value |-> 0,
                res |-> IF name \in DOMAIN self
                        THEN Returns(None) ELSE Raises(KeyError(name))]
    /\ UNCHANGED <<attrs, dictmade, overridden, obj, out>>

(* m.name *)
GetAttr(name) ==
    /\ last' = [op |-> "getAttr", name |-> name, value |-> 0,
                res |-> GetAttribute(self, attrs, name)]
    /\ UNCHANGED <<self, attrs, dictmade, overridden, obj, out>>

(* m.name = value *)
SetAttr(name, v) ==
    /\ self' = SetattrSelf(self, attrs, name, v)
    /\ attrs' = SetattrAttrs(self, attrs, name, v)
    /\ dictmade' = (dictmade \/ HasAttr(self, attrs, name))
    /\ overridden' = IF HasAttr(self, attrs, name)
                     THEN overridden \cup {name} ELSE overridden
    /\ last' = [op |-> "setAttr", name |-> name, value |-> v, res |-> Returns(None)]
    /\ UNCHANGED <<obj, out>>

(* del m.name *)
DeleteAttr(name) ==
    /\ self' = DelattrSelf(self, name)
    /\ attrs' = DelattrAttrs(self, attrs, dictmade, name)
    /\ last' = [op |-> "deleteAttr", name |-> name, value |-> 0,
                res |-> DelattrResult(self, attrs, dictmade, name)]
    /\ UNCHANGED <<dictmade, overridden, obj, out>>

Next ==
    \E name \in Names :
        \/ \E v \in Values : SetKey(name, v)
        \/ GetKey(name)
        \/ DeleteKey(name)
        \/ GetAttr(name)
        \/ \E v \in Values : SetAttr(name, v)
        \/ DeleteAttr(name)

(***************************************************************************)
(* bunchify and unbunchify.                                                *)
(*                                                                         *)
(* A Python object is the record [type, val]: val is the number of an      *)
(* "int", the entries (a function on its keys) of a "dict" or "Bunch", the *)
(* items (a sequence) of a "list" or "tuple".                              *)
(***************************************************************************)
(* Bound on the size of an input: its number of objects, nested included. *)
MaxNodes == 4

(* The keys of the dicts of an input; "values" is a method name of dict. *)
ConvKeys == <<"hello", "values">>

Scalar(n) == [type |-> "int", val |-> n]

(* type(obj)(items): the variant builds a list whatever the type. *)
AlwaysList(t, items) == [type |-> "list", val |-> items]

TypeCall(t, items) == [type |-> t, val |-> items]

(* dict(entries) *)
DictOf(entries) == [type |-> "dict", val |-> entries]

(* Bunch(entries): the variant builds a plain dict. *)
BunchAsDict(entries) == DictOf(entries)

BunchOf(entries) == [type |-> "Bunch", val |-> entries]

(* isinstance(obj, dict): Bunch is a subclass of dict (line 28). *)
IsDict(o) == o.type \in {"dict", "Bunch"}

(* isinstance(obj, (list, tuple)) *)
IsListOrTuple(o) == o.type \in {"list", "tuple"}

RECURSIVE bunchify(_)
bunchify(o) ==
    IF IsDict(o)
    THEN BunchOf([key \in DOMAIN o.val |-> bunchify(o.val[key])])
    ELSE IF IsListOrTuple(o)
    THEN TypeCall(o.type, [i \in 1..Len(o.val) |-> bunchify(o.val[i])])
    ELSE o

RECURSIVE unbunchify(_)
unbunchify(o) ==
    IF IsDict(o)
    THEN DictOf([key \in DOMAIN o.val |-> unbunchify(o.val[key])])
    ELSE IF IsListOrTuple(o)
    THEN TypeCall(o.type, [i \in 1..Len(o.val) |-> unbunchify(o.val[i])])
    ELSE o

(***************************************************************************)
(* The inputs: every object of at most n nodes built from ints, dicts,     *)
(* Bunches, lists and tuples.                                              *)
(***************************************************************************)
RECURSIVE Size(_), SumSizes(_, _)
SumSizes(f, S) ==
    IF S = {} THEN 0
    ELSE LET x == CHOOSE y \in S : TRUE IN Size(f[x]) + SumSizes(f, S \ {x})

Size(o) == IF o.type = "int" THEN 1 ELSE 1 + SumSizes(o.val, DOMAIN o.val)

RECURSIVE Objects(_), ItemsOf(_), EntriesOf(_, _)
Objects(n) ==
    IF n <= 0 THEN {}
    ELSE {Scalar(v) : v \in Values}
         \cup {[type |-> t, val |-> s] : t \in {"list", "tuple"}, s \in ItemsOf(n - 1)}
         \cup {[type |-> t, val |-> e] :
                   t \in {"dict", "Bunch"}, e \in EntriesOf(ConvKeys, n - 1)}

ItemsOf(n) ==
    {<<>>} \cup UNION {{<<o>> \o s : s \in ItemsOf(n - Size(o))} : o \in Objects(n)}

EntriesOf(ks, n) ==
    IF ks = <<>> THEN {EmptyDict}
    ELSE EntriesOf(Tail(ks), n)
         \cup UNION {{SetItem(e, Head(ks), o) : e \in EntriesOf(Tail(ks), n - Size(o))}
                        : o \in Objects(n)}

(***************************************************************************)
(* The converters as a machine: an input is drawn, then bunchify (line     *)
(* 193) or unbunchify (line 218) is applied to it, and unbunchify to the   *)
(* result of bunchify.  out records the calls made and the last result.    *)
(***************************************************************************)
ConvInit ==
    /\ obj \in Objects(MaxNodes)
    /\ out = [calls |-> <<>>, val |-> obj]

Bunchify ==
    /\ out.calls = <<>>
    /\ out' = [calls |-> <<"bunchify">>, val |-> bunchify(obj)]
    /\ UNCHANGED <<obj, self, attrs, dictmade, overridden, last>>

Unbunchify ==
    /\ out.calls = <<>>
    /\ out' = [calls |-> <<"unbunchify">>, val |-> unbunchify(obj)]
    /\ UNCHANGED <<obj, self, attrs, dictmade, overridden, last>>

UnbunchifyResult ==
    /\ out.calls = <<"bunchify">>
    /\ out' = [calls |-> <<"bunchify", "unbunchify">>, val |-> unbunchify(out.val)]
    /\ UNCHANGED <<obj, self, attrs, dictmade, overridden, last>>

(***************************************************************************)
(* The two specifications: the Bunch object under its operations, and the  *)
(* converters applied to an input.                                         *)
(***************************************************************************)
Init == MapInit /\ obj = Scalar(1) /\ out = [calls |-> <<>>, val |-> Scalar(1)]

Spec == Init /\ [][Next]_vars

InitConv ==
    /\ ConvInit
    /\ self = EmptyDict /\ attrs = EmptyDict /\ dictmade = FALSE
    /\ overridden = {} /\ last = NoOp

NextConv == Bunchify \/ Unbunchify \/ UnbunchifyResult

SpecConv == InitConv /\ [][NextConv]_vars

(***************************************************************************)
(* The error kinds of the specification, read off the exception raised.    *)
(***************************************************************************)
Failed(res) == res.exc # NoExc

IsKeyNotFound(res) == Failed(res) /\ res.exc[1] = "KeyError"

IsAttributeNotFound(res) ==
    /\ Failed(res)
    /\ res.exc[1] = "AttributeError"
    /\ res.exc[2] \in {"name", "has no attribute"}

IsAttributeReadOnly(res) ==
    /\ Failed(res)
    /\ res.exc[1] = "AttributeError"
    /\ res.exc[2] = "is read-only"

(***************************************************************************)
(* C1.  For every non-reserved name k and value v, in every reachable      *)
(* state, right after setAttr(m, k, v) both getKey(m, k) and getAttr(m, k) *)
(* return v, as they would after setKey(m, k, v).                          *)
(* Violated: when k is already a key, hasattr(self, k) is true (through    *)
(* __getattr__), the write goes to the instance dictionary and the key     *)
(* keeps its old value.                                                    *)
(***************************************************************************)
C1_SetAttrIsSetKey ==
    (last.op = "setAttr" /\ last.name \in Plain) =>
        /\ GetItem(self, last.name) = Returns(Value(last.value))
        /\ GetAttribute(self, attrs, last.name) = Returns(Value(last.value))

(***************************************************************************)
(* C2.  In every reachable state, for every non-reserved key k the         *)
(* attribute read returns what the subscript read returns, and right after *)
(* setKey(m, k, v) both return v.                                          *)
(* Violated: an instance binding of k, made by a setAttr on the existing   *)
(* key k (C1), shadows the key in the attribute read.                      *)
(***************************************************************************)
C2_AttrReadIsKeyRead ==
    /\ \A k \in Plain :
          k \in DOMAIN self => GetAttribute(self, attrs, k) = GetItem(self, k)
    /\ (last.op = "setKey" /\ last.name \in Plain) =>
          /\ GetItem(self, last.name) = Returns(Value(last.value))
          /\ GetAttribute(self, attrs, last.name) = Returns(Value(last.value))

(***************************************************************************)
(* C3.  For a non-reserved key k, a successful deleteAttr(m, k) removes k  *)
(* from both views: afterwards getAttr(m, k) fails with the attribute      *)
(* not-found error and getKey(m, k) with the key not-found error.          *)
(* Violated: the key is deleted, but an instance binding of k made by a    *)
(* setAttr on the existing key (C1) is still read by getAttr.              *)
(***************************************************************************)
C3_DeleteAttrRemovesBothViews ==
    [][\A k \in Plain :
          (last'.op = "deleteAttr" /\ last'.name = k /\ k \in DOMAIN self
             /\ ~Failed(last'.res)) =>
              /\ IsAttributeNotFound(GetAttribute(self', attrs', k))
              /\ IsKeyNotFound(GetItem(self', k))]_vars

(***************************************************************************)
(* C4.  For a reserved name r, setAttr(m, r, x) leaves the mapping as it   *)
(* was (the key r is as present and as valued as before), getAttr(m, r)    *)
(* then returns x, and no key-style operation changes what getAttr(m, r)   *)
(* returns.                                                                *)
(***************************************************************************)
C4_ReservedShadowing ==
    [][\A r \in Reserved :
          /\ (last'.op = "setAttr" /\ last'.name = r) =>
                /\ self' = self
                /\ GetItem(self', r) = GetItem(self, r)
                /\ GetAttribute(self', attrs', r) = Returns(Value(last'.value))
          /\ (last'.op \in {"setKey", "getKey", "deleteKey"}) =>
                GetAttribute(self', attrs', r) = GetAttribute(self, attrs, r)]_vars

(* C4's case: r was set by attribute, then a different value by subscript. *)
C4_Witness ==
    /\ last.op = "setKey"
    /\ last.name \in Reserved
    /\ last.name \in DOMAIN attrs
    /\ attrs[last.name] # self[last.name]
    /\ GetAttribute(self, attrs, last.name) = Returns(Value(attrs[last.name]))

(***************************************************************************)
(* C5.  getAttr(m, name) on a name that is neither a bound attribute nor a *)
(* key fails with AttributeError(name), never with a KeyError, and changes *)
(* nothing; on a non-reserved key with no attribute binding it returns the *)
(* stored value.                                                           *)
(***************************************************************************)
C5_GetAttrNotFound ==
    [][last'.op = "getAttr" =>
          /\ self' = self /\ attrs' = attrs /\ dictmade' = dictmade
          /\ (/\ last'.name \notin DOMAIN attrs
              /\ last'.name \notin Reserved
              /\ last'.name \notin DOMAIN self) =>
                 /\ last'.res = Raises(AttributeError(last'.name))
                 /\ IsAttributeNotFound(last'.res)
                 /\ ~IsKeyNotFound(last'.res)
          /\ (/\ last'.name \in Plain
              /\ last'.name \in DOMAIN self
              /\ last'.name \notin DOMAIN attrs) =>
                 last'.res = Returns(Value(self[last'.name]))]_vars

(* C5's case: an attribute read of a missing name of a non-empty Bunch. *)
C5_Witness ==
    /\ last.op = "getAttr"
    /\ last.name \notin DOMAIN self
    /\ self # EmptyDict
    /\ last.res = Raises(AttributeError(last.name))

(***************************************************************************)
(* C6 as claimed.  deleteAttr(m, name) on a name that is not a key fails   *)
(* with AttributeReadOnly when name is a reserved attribute never          *)
(* overridden on the instance and with AttributeNotFound when name is      *)
(* neither a key nor an attribute; a failure changes nothing.              *)
(* Stated for the states in which no non-reserved name is bound on the     *)
(* instance, so that a violation owes nothing to C1.                       *)
(* Violated: once the instance dictionary exists (m.keys = 1), deleting a  *)
(* reserved name that was never overridden (del m.values) raises           *)
(* AttributeError(name), the not-found error.                              *)
(***************************************************************************)
C6_Original ==
    [][(/\ last'.op = "deleteAttr"
        /\ last'.name \notin DOMAIN self
        /\ DOMAIN attrs \cap Plain = {}) =>
          /\ (last'.name \in Reserved /\ last'.name \notin overridden) =>
                IsAttributeReadOnly(last'.res)
          /\ (last'.name \notin Reserved /\ last'.name \notin DOMAIN attrs) =>
                IsAttributeNotFound(last'.res)
          /\ Failed(last'.res) => (self' = self /\ attrs' = attrs)]_vars

(***************************************************************************)
(* C6 amended.  deleteAttr(m, name) on a name that is neither a key nor    *)
(* bound on the instance fails and changes nothing: with AttributeReadOnly *)
(* when name is reserved and no attribute was ever bound on the instance,  *)
(* with AttributeNotFound when name is not reserved, and with              *)
(* AttributeNotFound as well when name is reserved and some attribute was  *)
(* bound on the instance before.                                           *)
(***************************************************************************)
C6_Amended ==
    [][(/\ last'.op = "deleteAttr"
        /\ last'.name \notin DOMAIN self
        /\ last'.name \notin DOMAIN attrs) =>
          /\ Failed(last'.res)
          /\ self' = self /\ attrs' = attrs
          /\ (last'.name \in Reserved /\ overridden = {}) =>
                IsAttributeReadOnly(last'.res)
          /\ (last'.name \notin Reserved) => IsAttributeNotFound(last'.res)
          /\ (last'.name \in Reserved /\ overridden # {}) =>
                IsAttributeNotFound(last'.res)]_vars

(* C6's case: deleting a reserved name of a Bunch with entries failed as   *)
(* read-only.                                                              *)
C6_Witness ==
    /\ last.op = "deleteAttr"
    /\ last.name \in Reserved
    /\ self # EmptyDict
    /\ IsAttributeReadOnly(last.res)

RECURSIVE DeepEqual(_, _)
DeepEqual(x, y) ==
    IF IsDict(x)
    THEN /\ IsDict(y)
         /\ DOMAIN x.val = DOMAIN y.val
         /\ \A k \in DOMAIN x.val : DeepEqual(x.val[k], y.val[k])
    ELSE /\ y.type = x.type
         /\ IF IsListOrTuple(x)
            THEN /\ Len(x.val) = Len(y.val)
                 /\ \A i \in 1..Len(x.val) : DeepEqual(x.val[i], y.val[i])
            ELSE x.val = y.val

(* Every sequence of x has the type of the sequence at the same path of y. *)
RECURSIVE SameSequenceKinds(_, _)
SameSequenceKinds(x, y) ==
    IF IsListOrTuple(x) /\ IsListOrTuple(y)
    THEN /\ x.type = y.type
         /\ \A i \in DOMAIN x.val \cap DOMAIN y.val :
               SameSequenceKinds(x.val[i], y.val[i])
    ELSE IF IsDict(x) /\ IsDict(y)
    THEN \A k \in DOMAIN x.val \cap DOMAIN y.val :
            SameSequenceKinds(x.val[k], y.val[k])
    ELSE ~IsListOrTuple(x) /\ ~IsListOrTuple(y)

(* Some object of type t is at a path of x through dicts, lists, tuples. *)
RECURSIVE HasType(_, _)
HasType(x, t) ==
    \/ x.type = t
    \/ /\ x.type # "int"
       /\ \E k \in DOMAIN x.val : HasType(x.val[k], t)

(***************************************************************************)
(* Every entry under a key of ks of every Bunch of x is what the attribute *)
(* read of that key returns (the Bunch is fresh: no instance attribute).   *)
(***************************************************************************)
RECURSIVE AttrReachable(_, _)
AttrReachable(x, ks) ==
    /\ x.type = "Bunch" =>
          \A k \in DOMAIN x.val \cap ks :
              GetAttribute(x.val, EmptyDict, k) = Returns(Value(x.val[k]))
    /\ x.type # "int" => \A k \in DOMAIN x.val : AttrReachable(x.val[k], ks)

AllKeys == {ConvKeys[i] : i \in DOMAIN ConvKeys}

(***************************************************************************)
(* C7.  For every input S, unbunchify(bunchify(S)) is deeply equal to S    *)
(* and its sequences have the kinds of the sequences of S at the same      *)
(* paths; when S holds no Bunch the result is S itself.                    *)
(***************************************************************************)
C7_RoundTrip ==
    out.calls = <<"bunchify", "unbunchify">> =>
        /\ DeepEqual(out.val, obj)
        /\ SameSequenceKinds(out.val, obj)
        /\ ~HasType(obj, "Bunch") => out.val = obj

(* C7's case: the round trip of a dict holding both a list and a tuple. *)
C7_Witness ==
    /\ out.calls = <<"bunchify", "unbunchify">>
    /\ obj.type = "dict"
    /\ HasType(obj, "list")
    /\ HasType(obj, "tuple")
    /\ out.val = obj

(***************************************************************************)
(* C8 as claimed.  bunchify(S) has a Bunch wherever S has a mapping, at    *)
(* any path through mappings, lists and tuples: no plain dict is left,     *)
(* every entry of every Bunch is what the attribute read of its key        *)
(* returns, the keys, positions and leaves are those of S; unbunchify(S)   *)
(* leaves no Bunch and keeps the keys, positions and leaves too.           *)
(* Violated: under a key that is a method name of dict ("values"), the     *)
(* attribute read returns the method and not the entry.                    *)
(***************************************************************************)
C8_Original ==
    /\ out.calls = <<"bunchify">> =>
          /\ ~HasType(out.val, "dict")
          /\ AttrReachable(out.val, AllKeys)
          /\ DeepEqual(out.val, obj)
    /\ out.calls = <<"unbunchify">> =>
          /\ ~HasType(out.val, "Bunch")
          /\ DeepEqual(out.val, obj)

(***************************************************************************)
(* C8 amended.  As claimed, except that the entries reachable by attribute *)
(* read are those whose key is not a reserved name.                        *)
(***************************************************************************)
C8_Amended ==
    /\ out.calls = <<"bunchify">> =>
          /\ ~HasType(out.val, "dict")
          /\ AttrReachable(out.val, AllKeys \ Reserved)
          /\ DeepEqual(out.val, obj)
    /\ out.calls = <<"unbunchify">> =>
          /\ ~HasType(out.val, "Bunch")
          /\ DeepEqual(out.val, obj)

(* C8's case: bunchify of a list holding a tuple holding a dict with the   *)
(* entry "hello", which is then read by attribute through both sequences.  *)
C8_Witness ==
    /\ out.calls = <<"bunchify">>
    /\ obj.type = "list" /\ Len(obj.val) = 1
    /\ obj.val[1].type = "tuple" /\ Len(obj.val[1].val) = 1
    /\ obj.val[1].val[1].type = "dict"
    /\ "hello" \in DOMAIN obj.val[1].val[1].val
    /\ out.val.val[1].val[1].type = "Bunch"
    /\ GetAttribute(out.val.val[1].val[1].val, EmptyDict, "hello")
          = Returns(Value(obj.val[1].val[1].val["hello"]))

====
